---- MODULE Spec2Model ----
(***************************************************************************)
(* Lending and inventory engine of the library management system.          *)
(*                                                                         *)
(* The database holds the books table (copies_total, copies_available) and *)
(* the borrow_records table.  Every web request is served by a worker with *)
(* its own ORM session: the handler loads rows into the session (a         *)
(* snapshot), decides on the snapshot, and db.session.commit() writes the  *)
(* changed attributes back as absolute values.  Each action below is one   *)
(* database statement of a handler together with the Python code that      *)
(* follows it up to the next statement, so that requests of different      *)
(* workers interleave exactly where the database lets them.                *)
(***************************************************************************)
EXTENDS Integers, Sequences, FiniteSets, TLC

(***************************************************************************)
(* Bounds of the model.                                                    *)
(***************************************************************************)
MaxBooks == 2
MaxCopies == 2
MaxLoans == 2
MaxDay == 1
\* last day of the calendar of the fines specification
MaxFineDay == 10

\* copies_available can grow without limit through repeated teacher
\* returns; requests that would push it further are not started.
MaxAvailable == MaxCopies + 1

Workers == {"w1", "w2"}
SeqWorkers == {"w1"}
BookIds == 1..MaxBooks
\* the catalogue of the concurrent specification
ConcBookIds == {1}
\* the catalogue of the desk specification
DeskBookIds == {1, 2}
RecordIds == 1..MaxLoans
CopyInputs == 0..MaxCopies
Days == 0..MaxFineDay

(***************************************************************************)
(* models.py                                                               *)
(***************************************************************************)
ADMIN == "admin"
TEACHER == "teacher"
STUDENT == "student"

Users == {"s1", "s2", "t1"}

\* users.role of the accounts of the model
Role(u) == IF u = "t1" THEN TEACHER ELSE STUDENT

\* return_date IS NULL
NoDate == -1

\* a row of books: the columns the lending code reads or writes
Book(total, available) ==
    [exists |-> TRUE, deleted |-> FALSE,
     copies_total |-> total, copies_available |-> available]

\* no row has this id yet
NoBook == [exists |-> FALSE, deleted |-> FALSE,
           copies_total |-> 0, copies_available |-> 0]

\* the row with this id was deleted; the table does not issue the id again
DeletedBook == [NoBook EXCEPT !.deleted = TRUE]

\* a row of borrow_records; return_date and fine take the column defaults
BorrowRecord(u, b, bd, dd, ret) ==
    [user_id |-> u, book_id |-> b, borrow_date |-> bd, due_date |-> dd,
     return_date |-> NoDate, returned |-> ret, fine |-> 0]

(***************************************************************************)
(* Loan policy: the periods are literals of the two borrow handlers.       *)
(***************************************************************************)
StudentLoanDays == 7
TeacherLoanDays == 14

VARIABLES books, borrow_records, users, today, pc, req, loc, result, overlap

vars == <<books, borrow_records, users, today, pc, req, loc, result, overlap>>
db == <<books, borrow_records>>

NoReq == [kind |-> "none", user |-> "none", book |-> 0, record |-> 0, n |-> 0,
          target |-> "none"]
NoLoc == [book_id |-> 0, copies_total |-> 0, copies_available |-> 0, date |-> 0,
          fine_total |-> 0, overdue |-> {}]

InFlight == {v \in Workers : pc[v] \notin {"idle", "done"}}

\* requests whose execution overlapped in time (bookkeeping of the model)
Begin(w) ==
    overlap' = [v \in Workers |->
                  IF v = w THEN InFlight \ {w}
                  ELSE IF v \in InFlight THEN overlap[v] \cup {w}
                  ELSE overlap[v]]

Init ==
    /\ books = [b \in BookIds |-> NoBook]
    /\ borrow_records = <<>>
    /\ users = Users
    /\ today = 0
    /\ pc = [w \in Workers |-> "idle"]
    /\ req = [w \in Workers |-> NoReq]
    /\ loc = [w \in Workers |-> NoLoc]
    /\ result = [w \in Workers |-> "none"]
    /\ overlap = [w \in Workers |-> {}]

(***************************************************************************)
(* Helpers of the handlers.                                                *)
(***************************************************************************)
\* the handler returns its response; its locals go out of scope (the stock a
\* borrow handler saw is kept with the response)
Finish(w, outcome, seen) ==
    /\ pc' = [pc EXCEPT ![w] = "done"]
    /\ result' = [result EXCEPT ![w] = outcome]
    /\ loc' = [loc EXCEPT ![w] = [NoLoc EXCEPT !.copies_available = seen]]

\* mutant: the query filters on returned=True
existing_returned(u, b) ==
    \E i \in 1..Len(borrow_records) :
        /\ borrow_records[i].user_id = u
        /\ borrow_records[i].book_id = b
        /\ borrow_records[i].returned

\* BorrowRecord.query.filter_by(user_id=u, book_id=b, returned=False).first()
existing(u, b) ==
    \E i \in 1..Len(borrow_records) :
        /\ borrow_records[i].user_id = u
        /\ borrow_records[i].book_id = b
        /\ ~borrow_records[i].returned

\* mutant: the stock check lets a book with no copy left through
not_available_below_zero(available) == available < 0

\* "if book.copies_available <= 0" of both borrow handlers
not_available(available) == available <= 0

\* mutant: the return handlers without their ownership check
not_owner_unchecked(record, u) == FALSE

\* "if record.user_id != current_user.id" of both return handlers
not_owner(record, u) == record.user_id # u

\* the already-returned check: the student handler has it, the teacher
\* handler has none
rejects_returned(role, record) == role = STUDENT /\ record.returned

\* mutant: the handlers create the record already returned
new_borrow_returned(role, u, b, borrowed_on, now) ==
    BorrowRecord(u, b, borrowed_on, borrowed_on + StudentLoanDays, TRUE)

\* the record a borrow handler builds: today is the clock when the handler
\* reads it for the borrow date, now the clock when it computes the due date
\* (the student handler reads the clock once, the teacher handler twice)
new_borrow(role, u, b, borrowed_on, now) ==
    IF role = STUDENT
    THEN BorrowRecord(u, b, borrowed_on, borrowed_on + StudentLoanDays, FALSE)
    ELSE BorrowRecord(u, b, borrowed_on, now + TeacherLoanDays, FALSE)

\* mutant: the borrow handlers forget to take the copy
reserve_nothing(available) == available

\* "book.copies_available -= 1" on the session's copy of the row
reserve(available) == available - 1

\* "record.book.copies_available += 1" on the session's copy of the row
release(available) == available + 1

\* mutant: the new count without its floor
Max0_unclamped(x) == x

\* "max(new_total - borrowed, 0)"
Max0(x) == IF x > 0 THEN x ELSE 0

\* "BorrowRecord.query.filter_by(book_id=book.id, returned=False).count()"
active_count(b) ==
    Cardinality({i \in 1..Len(borrow_records) :
                    /\ borrow_records[i].book_id = b
                    /\ ~borrow_records[i].returned})

\* mutant: a flush that finds no loan row of the book
transactions_unloaded(b) == {}

\* book.transactions as the flush of a delete loads it: Book.transactions has
\* no delete cascade, so the flush sets book_id of these rows to NULL, which
\* the NOT NULL column refuses (IntegrityError)
transactions(b) ==
    {i \in 1..Len(borrow_records) : borrow_records[i].book_id = b}

\* mutant: a flush that finds no loan row of the user
user_transactions_unloaded(u) == {}

\* user.transactions as the flush of a delete loads it: User.transactions has
\* no delete cascade, so the flush sets user_id of these rows to NULL, which
\* the NOT NULL column refuses (IntegrityError)
user_transactions(u) ==
    {i \in 1..Len(borrow_records) : borrow_records[i].user_id = u}

\* "fine_per_day = 5" of student.fines
fine_per_day == 5

\* mutant: the difference taken the wrong way round
days_late_reversed(due, day) == due - day

\* "(today - due).days"
days_late(due, day) == day - due

\* mutant: the loop without its "not r.returned" test
late_fee_of_any(r, day) ==
    IF r.due_date # NoDate /\ r.due_date < day
    THEN days_late(r.due_date, day) * fine_per_day
    ELSE 0

\* what one record adds to fine_total in the loop of student.fines; the
\* Date column loads as a date, which to_date returns as it is
late_fee(r, day) ==
    IF ~r.returned /\ r.due_date # NoDate /\ r.due_date < day
    THEN days_late(r.due_date, day) * fine_per_day
    ELSE 0

\* the loop of student.fines over the records of user u
RECURSIVE fine_total(_, _, _)
fine_total(records, u, day) ==
    IF records = <<>> THEN 0
    ELSE (IF Head(records).user_id = u THEN late_fee(Head(records), day) ELSE 0)
         + fine_total(Tail(records), u, day)

\* "sum(r.fine or 0 for r in ...)" of the chatbot over the records of user u
RECURSIVE total_fine(_, _)
total_fine(records, u) ==
    IF records = <<>> THEN 0
    ELSE (IF Head(records).user_id = u THEN Head(records).fine ELSE 0)
         + total_fine(Tail(records), u)

\* the total of fines_list of the legacy fines page:
\* "{amount: b.fine} for b in borrows if b.fine > 0"
RECURSIVE fines_list(_, _)
fines_list(records, u) ==
    IF records = <<>> THEN 0
    ELSE (IF Head(records).user_id = u /\ Head(records).fine > 0
          THEN Head(records).fine ELSE 0)
         + fines_list(Tail(records), u)

\* mutant: the filter without its returned == False condition
overdue_books_of_any(u, day) ==
    {i \in 1..Len(borrow_records) :
        /\ borrow_records[i].user_id = u
        /\ borrow_records[i].due_date < day}

\* the loans selected by "user_id == current_user.id, returned == False,
\* due_date < today" (student.dashboard, chatbot intent overdue)
overdue_books(u, day) ==
    {i \in 1..Len(borrow_records) :
        /\ borrow_records[i].user_id = u
        /\ borrow_records[i].returned = FALSE
        /\ borrow_records[i].due_date < day}

\* the loans the legacy chatbot labels "Overdue":
\* "if b.due_date < date.today()"
past_due(u, day) ==
    {i \in 1..Len(borrow_records) :
        /\ borrow_records[i].user_id = u
        /\ borrow_records[i].due_date < day}

\* borrow requests that will still insert a row
PendingBorrows ==
    Cardinality({v \in Workers : pc[v] \in {"borrow_check", "borrow_commit"}})

(***************************************************************************)
(* admin.add_book: one INSERT, copies_available = copies_total; b is the   *)
(* next id of the table.                                                   *)
(***************************************************************************)
add_book(b, n) ==
    /\ books[b] = NoBook
    /\ \A c \in BookIds : c < b => books[c] # NoBook
    /\ books' = [books EXCEPT ![b] = Book(n, n)]
    /\ UNCHANGED <<borrow_records, today, pc, req, loc, result, overlap, users>>

(***************************************************************************)
(* admin.edit_book (POST): load the book, then commit the new counts.      *)
(* The commit writes only the attributes whose value differs from the one  *)
(* the session loaded.                                                     *)
(***************************************************************************)
edit_book_load(w, b, n) ==
    /\ pc[w] = "idle"
    /\ req' = [req EXCEPT ![w] = [NoReq EXCEPT !.kind = "edit", !.user = ADMIN,
                                               !.book = b, !.n = n]]
    /\ Begin(w)
    /\ IF ~books[b].exists
       THEN Finish(w, "not_found", 0)
       ELSE /\ pc' = [pc EXCEPT ![w] = "edit_commit"]
            /\ result' = [result EXCEPT ![w] = "none"]
            /\ loc' = [loc EXCEPT ![w] =
                  [NoLoc EXCEPT !.book_id = b,
                                !.copies_total = books[b].copies_total,
                                !.copies_available = books[b].copies_available]]
    /\ UNCHANGED <<books, borrow_records, today, users>>

edit_book_commit(w) ==
    /\ pc[w] = "edit_commit"
    /\ LET b == loc[w].book_id
           new_total == req[w].n
           borrowed == loc[w].copies_total - loc[w].copies_available
           new_available == Max0(new_total - borrowed)
           dirty == \/ new_total # loc[w].copies_total
                    \/ new_available # loc[w].copies_available
       IN  IF dirty /\ ~books[b].exists
           THEN \* the UPDATE matches no row: StaleDataError
                /\ books' = books
                /\ Finish(w, "error", 0)
           ELSE /\ books' = [books EXCEPT
                      ![b].copies_total =
                          IF new_total # loc[w].copies_total
                          THEN new_total ELSE @,
                      ![b].copies_available =
                          IF new_available # loc[w].copies_available
                          THEN new_available ELSE @]
                /\ Finish(w, "updated", 0)
    /\ req' = [req EXCEPT ![w].n = 0]
    /\ UNCHANGED <<borrow_records, today, overlap, users>>

(***************************************************************************)
(* student.borrow_book and teacher.borrow_book.  The role decorators let   *)
(* a student reach only the student handler and a teacher only the teacher *)
(* handler, so the user's role selects the handler.                        *)
(*   load:   Book.query.get_or_404 and the stock check                     *)
(*   check:  the query for an active loan of this user on this book, the   *)
(*           first reading of the clock                                    *)
(*   commit: the record is completed (the teacher handler reads the clock  *)
(*           again for the due date), UPDATE books, INSERT borrow_records  *)
(***************************************************************************)
borrow_book_load(w, u, b) ==
    /\ pc[w] = "idle"
    /\ u \in users
    /\ Len(borrow_records) + PendingBorrows < MaxLoans
    /\ req' = [req EXCEPT ![w] = [NoReq EXCEPT !.kind = "borrow", !.user = u,
                                               !.book = b]]
    /\ Begin(w)
    /\ IF ~books[b].exists
       THEN Finish(w, "not_found", 0)
       ELSE IF not_available(books[b].copies_available)
       THEN Finish(w, "out_of_stock", books[b].copies_available)
       ELSE /\ pc' = [pc EXCEPT ![w] = "borrow_check"]
            /\ result' = [result EXCEPT ![w] = "none"]
            /\ loc' = [loc EXCEPT ![w] =
                  [NoLoc EXCEPT !.book_id = b,
                                !.copies_available = books[b].copies_available]]
    /\ UNCHANGED <<books, borrow_records, today, users>>

borrow_book_check(w) ==
    /\ pc[w] = "borrow_check"
    /\ IF existing(req[w].user, req[w].book)
       THEN Finish(w, "already_borrowed", loc[w].copies_available)
       ELSE /\ pc' = [pc EXCEPT ![w] = "borrow_commit"]
            /\ result' = result
            /\ loc' = [loc EXCEPT ![w].date = today]
    /\ UNCHANGED <<books, borrow_records, today, req, overlap, users>>

\* mutant: the handler commits after the decrement and loses the record
borrow_book_commit_copy_only(w) ==
    /\ pc[w] = "borrow_commit"
    /\ books' = [books EXCEPT ![req[w].book].copies_available =
                                  reserve(loc[w].copies_available)]
    /\ Finish(w, "borrowed", loc[w].copies_available)
    /\ UNCHANGED <<borrow_records, today, req, overlap, users>>

borrow_book_commit(w) ==
    /\ pc[w] = "borrow_commit"
    /\ LET u == req[w].user
           b == req[w].book
       IN  IF ~books[b].exists \/ u \notin users
           THEN \* the UPDATE matches no row (StaleDataError), the INSERT
                \* has no book or no user to reference (IntegrityError):
                \* the transaction is rolled back
                /\ UNCHANGED <<books, borrow_records>>
                /\ Finish(w, "error", loc[w].copies_available)
           ELSE /\ books' = [books EXCEPT ![b].copies_available =
                                               reserve(loc[w].copies_available)]
                /\ borrow_records' =
                       Append(borrow_records,
                              new_borrow(Role(u), u, b, loc[w].date, today))
                /\ Finish(w, "borrowed", loc[w].copies_available)
    /\ UNCHANGED <<today, req, overlap, users>>

(***************************************************************************)
(* student.return_book and teacher.return_book.                            *)
(*   load:   BorrowRecord.query.get_or_404, the ownership check, the       *)
(*           already-returned check (student only), the clock              *)
(*   book:   record.book loads the book row into the session               *)
(*   commit: UPDATE borrow_records, UPDATE books                           *)
(***************************************************************************)
return_book_load(w, u, r) ==
    /\ pc[w] = "idle"
    /\ u \in users
    /\ r \in 1..Len(borrow_records) =>
           books[borrow_records[r].book_id].copies_available < MaxAvailable
    /\ req' = [req EXCEPT ![w] = [NoReq EXCEPT !.kind = "return", !.user = u,
                                               !.record = r]]
    /\ Begin(w)
    /\ IF r \notin 1..Len(borrow_records)
       THEN Finish(w, "not_found", 0)
       ELSE LET record == borrow_records[r]
            IN  IF not_owner(record, u)
                THEN Finish(w, "unauthorized", 0)
                ELSE IF rejects_returned(Role(u), record)
                THEN Finish(w, "already_returned", 0)
                ELSE /\ pc' = [pc EXCEPT ![w] = "return_book"]
                     /\ result' = [result EXCEPT ![w] = "none"]
                     /\ loc' = [loc EXCEPT ![w] =
                           [NoLoc EXCEPT !.book_id = record.book_id,
                                         !.date = today]]
    /\ UNCHANGED <<books, borrow_records, today, users>>

return_book_book(w) ==
    /\ pc[w] = "return_book"
    /\ IF ~books[loc[w].book_id].exists
       THEN \* record.book is None: AttributeError
            Finish(w, "error", 0)
       ELSE /\ pc' = [pc EXCEPT ![w] = "return_commit"]
            /\ loc' = [loc EXCEPT
                  ![w].copies_available = books[loc[w].book_id].copies_available]
            /\ result' = result
    /\ UNCHANGED <<books, borrow_records, today, req, overlap, users>>

\* mutant: the handlers set the flag and leave return_date empty
return_book_commit_undated(w) ==
    /\ pc[w] = "return_commit"
    /\ borrow_records' = [borrow_records EXCEPT
          ![req[w].record].returned = TRUE]
    /\ books' = [books EXCEPT ![loc[w].book_id].copies_available =
                                  release(loc[w].copies_available)]
    /\ Finish(w, "returned", 0)
    /\ UNCHANGED <<today, req, overlap, users>>

\* mutant: the handlers move the due date to the day of the return
return_book_commit_redated(w) ==
    /\ pc[w] = "return_commit"
    /\ borrow_records' = [borrow_records EXCEPT
          ![req[w].record].returned = TRUE,
          ![req[w].record].return_date = loc[w].date,
          ![req[w].record].due_date = loc[w].date]
    /\ books' = [books EXCEPT ![loc[w].book_id].copies_available =
                                  release(loc[w].copies_available)]
    /\ Finish(w, "returned", 0)
    /\ UNCHANGED <<today, req, overlap, users>>

return_book_commit(w) ==
    /\ pc[w] = "return_commit"
    /\ IF ~books[loc[w].book_id].exists
       THEN \* the UPDATE of books matches no row: StaleDataError
            /\ UNCHANGED <<books, borrow_records>>
            /\ Finish(w, "error", 0)
       ELSE /\ borrow_records' = [borrow_records EXCEPT
                  ![req[w].record].returned = TRUE,
                  ![req[w].record].return_date = loc[w].date]
            /\ books' = [books EXCEPT ![loc[w].book_id].copies_available =
                                          release(loc[w].copies_available)]
            /\ Finish(w, "returned", 0)
    /\ UNCHANGED <<today, req, overlap, users>>

(***************************************************************************)
(* admin.delete_book.                                                      *)
(*   load:   Book.query.get_or_404                                         *)
(*   count:  the count of the unreturned loans of the book                 *)
(*   commit: db.session.delete(book) and the flush: the loans of the book  *)
(*           are loaded and detached (IntegrityError when there is one),   *)
(*           then the row is deleted; an error rolls the transaction back  *)
(***************************************************************************)
delete_book_load(w, b) ==
    /\ pc[w] = "idle"
    /\ req' = [req EXCEPT ![w] = [NoReq EXCEPT !.kind = "delete",
                                               !.user = ADMIN, !.book = b]]
    /\ Begin(w)
    /\ IF ~books[b].exists
       THEN Finish(w, "not_found", 0)
       ELSE /\ pc' = [pc EXCEPT ![w] = "delete_count"]
            /\ result' = [result EXCEPT ![w] = "none"]
            /\ loc' = [loc EXCEPT ![w] = [NoLoc EXCEPT !.book_id = b]]
    /\ UNCHANGED <<books, borrow_records, today, users>>

delete_book_count(w) ==
    /\ pc[w] = "delete_count"
    /\ IF active_count(loc[w].book_id) # 0
       THEN Finish(w, "in_use", 0)
       ELSE /\ pc' = [pc EXCEPT ![w] = "delete_commit"]
            /\ UNCHANGED <<loc, result>>
    /\ UNCHANGED <<books, borrow_records, today, req, overlap, users>>

delete_book_commit(w) ==
    /\ pc[w] = "delete_commit"
    /\ LET b == loc[w].book_id
       IN  IF transactions(b) # {}
           THEN /\ books' = books
                /\ Finish(w, "error", 0)
           ELSE /\ books' = [books EXCEPT ![b] =
                                 IF @.exists THEN DeletedBook ELSE @]
                /\ Finish(w, "deleted", 0)
    /\ UNCHANGED <<borrow_records, today, req, overlap, users>>

(***************************************************************************)
(* admin.delete_user.                                                      *)
(*   load:   User.query.get_or_404 and the refusal to delete an admin      *)
(*   commit: db.session.delete(user) and the flush: the loans of the user  *)
(*           are loaded and detached (IntegrityError when there is one),   *)
(*           then the row is deleted; an error rolls the transaction back  *)
(* Every other handler sits behind login_required: it serves a user only   *)
(* while the user's row exists.                                            *)
(***************************************************************************)
delete_user_load(w, u) ==
    /\ pc[w] = "idle"
    /\ req' = [req EXCEPT ![w] = [NoReq EXCEPT !.kind = "delete_user",
                                               !.user = ADMIN, !.target = u]]
    /\ Begin(w)
    /\ IF u \notin users
       THEN Finish(w, "not_found", 0)
       ELSE IF Role(u) = ADMIN
       THEN Finish(w, "refused", 0)
       ELSE /\ pc' = [pc EXCEPT ![w] = "delete_user_commit"]
            /\ result' = [result EXCEPT ![w] = "none"]
            /\ loc' = [loc EXCEPT ![w] = NoLoc]
    /\ UNCHANGED <<books, borrow_records, today, users>>

delete_user_commit(w) ==
    /\ pc[w] = "delete_user_commit"
    /\ IF user_transactions(req[w].target) # {}
       THEN /\ users' = users
            /\ Finish(w, "error", 0)
       ELSE /\ users' = users \ {req[w].target}
            /\ Finish(w, "deleted", 0)
    /\ UNCHANGED <<books, borrow_records, today, req, overlap>>

(***************************************************************************)
(* The fine reports.  Each is one query followed by Python arithmetic.     *)
(*   student.fines: recomputes the fines of the caller's unreturned        *)
(*           overdue loans from the clock                                  *)
(*   chatbot_api, intent check_fines: adds up the stored fine column       *)
(*   admin.export_full_report_pdf: the loan rows load their Date columns   *)
(*           as date objects; for every row the report either compares     *)
(*           due_date with datetime.utcnow() (TypeError) or calls          *)
(*           borrow_date.date() (AttributeError), so the export fails as   *)
(*           soon as the table has a row                                   *)
(***************************************************************************)
Report(w, kind, u, outcome, total, listed) ==
    /\ pc[w] = "idle"
    /\ req' = [req EXCEPT ![w] = [NoReq EXCEPT !.kind = kind, !.user = u]]
    /\ Begin(w)
    /\ pc' = [pc EXCEPT ![w] = "done"]
    /\ result' = [result EXCEPT ![w] = outcome]
    /\ loc' = [loc EXCEPT ![w] = [NoLoc EXCEPT !.date = today,
                                               !.fine_total = total,
                                               !.overdue = listed]]
    /\ UNCHANGED <<books, borrow_records, today, users>>

fines(w, u) ==
    /\ u \in users
    /\ Role(u) = STUDENT
    /\ Report(w, "fines", u, "fines",
              fine_total(borrow_records, u, today), {})

check_fines(w, u) ==
    /\ u \in users
    /\ Report(w, "check_fines", u, "reply",
              total_fine(borrow_records, u), {})

export_full_report_pdf(w) ==
    /\ pc[w] = "idle"
    /\ Report(w, "export", ADMIN,
              IF borrow_records = <<>> THEN "pdf" ELSE "error", 0, {})

(***************************************************************************)
(* The overdue reports; each answers with the set of loans it reports as   *)
(* overdue.                                                                *)
(*   student.dashboard: counts the caller's unreturned loans whose         *)
(*           due_date is before today                                      *)
(*   chatbot_api, intent overdue: lists the same loans                     *)
(*   chatbot_api, intent my_borrowed: labels each loan of the caller; for  *)
(*           an unreturned loan it calls due_date.date() on the date the   *)
(*           column loads (AttributeError)                                 *)
(*   routes.py: the legacy application; its chatbot labels a loan from     *)
(*           its due_date alone, its fines page lists the stored fines     *)
(***************************************************************************)
dashboard(w, u) ==
    /\ u \in users
    /\ Role(u) = STUDENT
    /\ Report(w, "dashboard", u, "dashboard", 0, overdue_books(u, today))

chatbot_overdue(w, u) ==
    /\ u \in users
    /\ Report(w, "overdue", u, "reply", 0, overdue_books(u, today))

chatbot_my_borrowed(w, u) ==
    /\ u \in users
    /\ Report(w, "my_borrowed", u,
              IF \E i \in user_transactions(u) : ~borrow_records[i].returned
              THEN "error" ELSE "reply", 0, {})

routes_chatbot_borrowed(w, u) ==
    /\ u \in users
    /\ Report(w, "legacy_borrowed", u, "reply", 0, past_due(u, today))

routes_fines(w, u) ==
    /\ u \in users
    /\ Report(w, "legacy_fines", u, "fines", fines_list(borrow_records, u), {})

(***************************************************************************)
(* The response is sent and the worker takes the next request.             *)
(***************************************************************************)
respond(w) ==
    /\ pc[w] = "done"
    /\ pc' = [pc EXCEPT ![w] = "idle"]
    /\ req' = [req EXCEPT ![w] = NoReq]
    /\ loc' = [loc EXCEPT ![w] = NoLoc]
    /\ result' = [result EXCEPT ![w] = "none"]
    /\ overlap' = [v \in Workers |-> IF v = w THEN {} ELSE overlap[v] \ {w}]
    /\ UNCHANGED <<books, borrow_records, today, users>>

\* the calendar date advances
tick ==
    /\ today < MaxDay
    /\ today' = today + 1
    /\ UNCHANGED <<books, borrow_records, pc, req, loc, result, overlap, users>>

\* d days pass
days_pass(d) ==
    /\ today + d <= MaxFineDay
    /\ today' = today + d
    /\ UNCHANGED <<books, borrow_records, pc, req, loc, result, overlap, users>>

(***************************************************************************)
(* Specifications.                                                         *)
(* Spec: two workers serve requests concurrently over a catalogue of one   *)
(* book, at a fixed date (no handler's control flow reads a date).         *)
(* SpecSeq: one worker, so every handler runs from its first read to its   *)
(* commit before the next one starts; the catalogue has MaxBooks books and *)
(* the date advances, also in the middle of a handler.                     *)
(***************************************************************************)
Admin(w) ==
    \/ \E b \in BookIds, n \in CopyInputs : edit_book_load(w, b, n)
    \/ edit_book_commit(w)

Lending(w) ==
    \/ \E u \in Users, b \in BookIds : borrow_book_load(w, u, b)
    \/ borrow_book_check(w)
    \/ borrow_book_commit(w)
    \/ \E u \in Users, r \in RecordIds : return_book_load(w, u, r)
    \/ return_book_book(w)
    \/ return_book_commit(w)
    \/ respond(w)

Handler(w) == Admin(w) \/ Lending(w)

Removal(w) ==
    \/ \E b \in BookIds : delete_book_load(w, b)
    \/ delete_book_count(w)
    \/ delete_book_commit(w)

Membership(w) ==
    \/ \E u \in Users : delete_user_load(w, u)
    \/ delete_user_commit(w)

Reporting(w) ==
    \/ \E u \in Users : fines(w, u)
    \/ \E u \in Users : check_fines(w, u)
    \/ export_full_report_pdf(w)
    \/ \E u \in Users : dashboard(w, u)
    \/ \E u \in Users : chatbot_overdue(w, u)
    \/ \E u \in Users : chatbot_my_borrowed(w, u)
    \/ \E u \in Users : routes_chatbot_borrowed(w, u)
    \/ \E u \in Users : routes_fines(w, u)

Next ==
    \/ \E b \in ConcBookIds, n \in CopyInputs : add_book(b, n)
    \/ \E w \in Workers : Handler(w)

Spec == Init /\ [][Next]_vars

NextSeq ==
    \/ \E b \in BookIds, n \in CopyInputs : add_book(b, n)
    \/ tick
    \/ \E w \in SeqWorkers : Handler(w)

SpecSeq == Init /\ [][NextSeq]_vars

\* SpecDesk: as SpecSeq at a fixed date over a catalogue of two books;
\* requests may name any book id of BookIds
NextDesk ==
    \/ \E b \in DeskBookIds, n \in CopyInputs : add_book(b, n)
    \/ \E w \in SeqWorkers : Handler(w)

SpecDesk == Init /\ [][NextDesk]_vars

\* SpecLend: as SpecSeq at a fixed date, and the only requests are Borrow and
\* Return (the books come from add_book)
NextLend ==
    \/ \E b \in BookIds, n \in CopyInputs : add_book(b, n)
    \/ \E w \in SeqWorkers : Lending(w)

SpecLend == Init /\ [][NextLend]_vars

\* SpecShelf: two workers serve Borrow, Return and admin.delete_book
\* concurrently over a catalogue of one book, at a fixed date
NextShelf ==
    \/ \E b \in ConcBookIds, n \in CopyInputs : add_book(b, n)
    \/ \E w \in Workers : Lending(w) \/ Removal(w)

SpecShelf == Init /\ [][NextShelf]_vars

\* SpecOffice: one worker serves every request of the model, one at a time,
\* over a catalogue of two books, at a fixed date
NextOffice ==
    \/ \E b \in DeskBookIds, n \in CopyInputs : add_book(b, n)
    \/ \E w \in SeqWorkers :
          \/ Handler(w)
          \/ Removal(w)
          \/ Membership(w)
          \/ Reporting(w)

SpecOffice == Init /\ [][NextOffice]_vars

\* SpecMembers: two workers serve Borrow, Return and admin.delete_user
\* concurrently over a catalogue of one book, at a fixed date
NextMembers ==
    \/ \E b \in ConcBookIds, n \in CopyInputs : add_book(b, n)
    \/ \E w \in Workers : Lending(w) \/ Membership(w)

SpecMembers == Init /\ [][NextMembers]_vars

\* SpecFine: one worker; the student s1 borrows and returns over a catalogue
\* of one book, days pass between and inside the requests, and the fine
\* reports are asked for at any time by s1 and by s2
Readers == {"s1"}
Askers == {"s1", "s2"}

NextFine ==
    \/ \E n \in CopyInputs : add_book(1, n)
    \/ \E d \in 1..MaxFineDay : days_pass(d)
    \/ \E w \in SeqWorkers :
          \/ \E u \in Readers : borrow_book_load(w, u, 1)
          \/ borrow_book_check(w)
          \/ borrow_book_commit(w)
          \/ \E u \in Readers, r \in RecordIds : return_book_load(w, u, r)
          \/ return_book_book(w)
          \/ return_book_commit(w)
          \/ \E u \in Askers : fines(w, u)
          \/ \E u \in Askers : check_fines(w, u)
          \/ export_full_report_pdf(w)
          \/ \E u \in Askers : dashboard(w, u)
          \/ \E u \in Askers : chatbot_overdue(w, u)
          \/ \E u \in Askers : chatbot_my_borrowed(w, u)
          \/ \E u \in Askers : routes_chatbot_borrowed(w, u)
          \/ \E u \in Askers : routes_fines(w, u)
          \/ respond(w)

SpecFine == Init /\ [][NextFine]_vars

(***************************************************************************)
(* Vocabulary of the properties.                                           *)
(***************************************************************************)
Records == 1..Len(borrow_records)

\* the active (unreturned) loans of user u on book b
ActiveLoans(u, b) ==
    {i \in Records : /\ borrow_records[i].user_id = u
                     /\ borrow_records[i].book_id = b
                     /\ borrow_records[i].returned = FALSE}

ActiveOn(b) == UNION {ActiveLoans(u, b) : u \in Users}

\* this step is the first step of a request of kind k served by w
Starts(w, k) == pc[w] = "idle" /\ pc'[w] # "idle" /\ req'[w].kind = k

\* this step ends the request of w with the response r
Rejected(w, r) == pc'[w] = "done" /\ result'[w] = r /\ UNCHANGED db

Served(w, k, r) == pc[w] = "done" /\ req[w].kind = k /\ result[w] = r

(***************************************************************************)
(* C1. In every reachable state every book has                             *)
(* 0 <= copies_available <= copies_total.                                  *)
(***************************************************************************)
C1_CopiesInRange ==
    \A b \in BookIds :
        books[b].exists =>
            /\ 0 <= books[b].copies_available
            /\ books[b].copies_available <= books[b].copies_total

(***************************************************************************)
(* C2. Conservation: after any sequence of Borrow and Return calls,        *)
(* copies_available = copies_total - number of active loans of the book.   *)
(***************************************************************************)
C2_Conservation ==
    \A b \in BookIds :
        books[b].exists =>
            books[b].copies_available =
                books[b].copies_total - Cardinality(ActiveOn(b))

(***************************************************************************)
(* C3. At most one active loan per (user, book), also when requests of the *)
(* same user run concurrently.                                             *)
(***************************************************************************)
C3_OneActiveLoan ==
    \A u \in Users, b \in BookIds : Cardinality(ActiveLoans(u, b)) <= 1

(***************************************************************************)
(* C4. Two Borrow requests of different users that run concurrently on a   *)
(* book, each seeing copies_available = 1: exactly one creates a loan, the *)
(* other is rejected as out of stock, and copies_available ends at 0.      *)
(***************************************************************************)
C4_LastCopyRace ==
    \A w1, w2 \in Workers :
        ( /\ w1 # w2
          /\ pc[w1] = "done" /\ pc[w2] = "done"
          /\ w2 \in overlap[w1] /\ w1 \in overlap[w2]
          /\ req[w1].kind = "borrow" /\ req[w2].kind = "borrow"
          /\ req[w1].book = req[w2].book
          /\ req[w1].user # req[w2].user
          /\ loc[w1].copies_available = 1 /\ loc[w2].copies_available = 1 )
        => /\ {result[w1], result[w2]} = {"borrowed", "out_of_stock"}
           /\ books[req[w1].book].copies_available = 0

(***************************************************************************)
(* C5. A Return called by the owner on a loan that is already returned is  *)
(* rejected as already-returned and changes nothing, in the student and in *)
(* the teacher handler.                                                    *)
(***************************************************************************)
C5_ReturnTwiceRejected ==
    [][\A w \in Workers :
          ( /\ Starts(w, "return")
            /\ req'[w].record \in Records
            /\ borrow_records[req'[w].record].returned
            /\ borrow_records[req'[w].record].user_id = req'[w].user )
          => Rejected(w, "already_returned")]_vars

C7_OutOfStockRejected ==
    [][\A w \in Workers :
          ( /\ Starts(w, "borrow")
            /\ books[req'[w].book].exists
            /\ books[req'[w].book].copies_available = 0 )
          => /\ Rejected(w, "out_of_stock")
             /\ books'[req'[w].book].copies_available = 0]_vars

\* a student and a teacher have both been refused the same sold-out book
C7_Witness ==
    \E w1, w2 \in Workers :
        /\ Served(w1, "borrow", "out_of_stock")
        /\ Served(w2, "borrow", "out_of_stock")
        /\ Role(req[w1].user) = STUDENT
        /\ Role(req[w2].user) = TEACHER
        /\ req[w1].book = req[w2].book
        /\ books[req[w1].book].copies_available = 0
        /\ ActiveOn(req[w1].book) # {}

(***************************************************************************)
(* C8. Every loan has due_date = borrow_date + the period of the           *)
(* borrower's role: 7 days for a student, 14 days for a teacher.           *)
(***************************************************************************)
C8_DueDate ==
    \A i \in Records :
        borrow_records[i].due_date =
            borrow_records[i].borrow_date +
                (IF Role(borrow_records[i].user_id) = STUDENT THEN 7 ELSE 14)

(***************************************************************************)
(* C9 as claimed. A Borrow of book b by a user who holds an active loan on *)
(* b is rejected as already-borrowed, creates no record and leaves         *)
(* copies_available unchanged.                                             *)
(***************************************************************************)
C9_AlreadyBorrowedRejected ==
    [][\A w \in Workers :
          /\ ( /\ Starts(w, "borrow")
               /\ books[req'[w].book].exists
               /\ ActiveLoans(req'[w].user, req'[w].book) # {} )
             => /\ UNCHANGED db
                /\ pc'[w] = "done" => result'[w] = "already_borrowed"
          /\ ( /\ pc[w] = "borrow_check" /\ pc'[w] # "borrow_check"
               /\ ActiveLoans(req[w].user, req[w].book) # {} )
             => Rejected(w, "already_borrowed")]_vars

(***************************************************************************)
(* C9 as amended. A Borrow of book b by a user who holds an active loan on *)
(* b creates no record and leaves copies_available unchanged; the stock    *)
(* check comes first, so it is rejected as out of stock when               *)
(* copies_available <= 0 and as already-borrowed otherwise.                *)
(***************************************************************************)
C9_HolderRejected ==
    [][\A w \in Workers :
          /\ ( /\ Starts(w, "borrow")
               /\ books[req'[w].book].exists
               /\ ActiveLoans(req'[w].user, req'[w].book) # {} )
             => /\ UNCHANGED db
                /\ IF books[req'[w].book].copies_available <= 0
                   THEN pc'[w] = "done" /\ result'[w] = "out_of_stock"
                   ELSE pc'[w] = "borrow_check"
          /\ ( /\ pc[w] = "borrow_check" /\ pc'[w] # "borrow_check"
               /\ ActiveLoans(req[w].user, req[w].book) # {} )
             => Rejected(w, "already_borrowed")]_vars

\* a holder has been refused as already-borrowed, with copies left, while
\* holding the book
C9_Witness ==
    \E w \in Workers :
        /\ Served(w, "borrow", "already_borrowed")
        /\ ActiveLoans(req[w].user, req[w].book) # {}
        /\ books[req[w].book].copies_available > 0

(***************************************************************************)
(* C10. A Return requested by a user who is not the loan's owner is        *)
(* rejected as unauthorized and leaves the loan and the book's             *)
(* copies_available unchanged, in the student and in the teacher handler.  *)
(***************************************************************************)
C10_NotOwnerRejected ==
    [][\A w \in Workers :
          ( /\ Starts(w, "return")
            /\ req'[w].record \in Records
            /\ borrow_records[req'[w].record].user_id # req'[w].user )
          => Rejected(w, "unauthorized")]_vars

\* a student and a teacher have both been refused the return of an active
\* loan of somebody else
C10_Witness ==
    \E w1, w2 \in Workers :
        /\ Served(w1, "return", "unauthorized")
        /\ Served(w2, "return", "unauthorized")
        /\ Role(req[w1].user) = STUDENT
        /\ Role(req[w2].user) = TEACHER
        /\ req[w1].record \in Records /\ req[w2].record \in Records
        /\ borrow_records[req[w1].record].returned = FALSE
        /\ borrow_records[req[w1].record].return_date = NoDate
        /\ borrow_records[req[w2].record].returned = FALSE
        /\ borrow_records[req[w2].record].return_date = NoDate

(***************************************************************************)
(* Vocabulary of the fine properties: what the fine rule owes.             *)
(***************************************************************************)
\* the fine of an active loan at date t: 5 a day after the due date
Owed(r, t) == IF ~r.returned /\ t > r.due_date THEN 5 * (t - r.due_date) ELSE 0

\* the sum of Owed over the first n loans of the ledger that belong to u
RECURSIVE OwedBy(_, _, _)
OwedBy(u, t, n) ==
    IF n = 0 THEN 0
    ELSE (IF borrow_records[n].user_id = u THEN Owed(borrow_records[n], t)
          ELSE 0) + OwedBy(u, t, n - 1)

ReturnedLate(r) == r.returned /\ r.return_date > r.due_date
ReturnedOnTime(r) ==
    r.returned /\ r.return_date # NoDate /\ r.return_date <= r.due_date

(***************************************************************************)
(* C11. A loan returned after its due date has the fine 5 x (return_date - *)
(* due_date), in its stored fine field and in the fines page of its        *)
(* borrower.                                                               *)
(***************************************************************************)
C11_LateReturnFine ==
    \A i \in Records :
        LET r == borrow_records[i]
        IN  ReturnedLate(r) =>
                /\ r.fine = 5 * (r.return_date - r.due_date)
                /\ \A w \in Workers :
                       ( Served(w, "fines", "fines")
                         /\ req[w].user = r.user_id )
                       => loc[w].fine_total >= 5 * (r.return_date - r.due_date)

(***************************************************************************)
(* C12. Every fine report is produced, and the total it gives for a user   *)
(* is the sum over the user's loans of 5 x (asOf - due_date) for the       *)
(* active loans with asOf > due_date and 0 for the others, asOf being the  *)
(* date of the report.                                                     *)
(***************************************************************************)
C12_ActiveFineTotal ==
    \A w \in Workers :
        (pc[w] = "done" /\ req[w].kind \in {"fines", "check_fines", "export"})
        => /\ result[w] # "error"
           /\ loc[w].fine_total =
                  OwedBy(req[w].user, loc[w].date, Len(borrow_records))

(***************************************************************************)
(* C13. Fine monotonicity: for an active loan, the fine computed at date   *)
(* t2 is at least the fine computed at date t1 whenever t2 >= t1.          *)
(***************************************************************************)
C13_FineMonotone ==
    \A i \in Records :
        ~borrow_records[i].returned =>
            \A t1, t2 \in Days :
                t1 <= t2 => late_fee(borrow_records[i], t2)
                                >= late_fee(borrow_records[i], t1)

\* the fines page has shown a fine of two days or more for a loan that is
\* still active
C13_Witness ==
    \E w \in Workers, i \in Records :
        /\ Served(w, "fines", "fines")
        /\ borrow_records[i].user_id = req[w].user
        /\ ~borrow_records[i].returned
        /\ borrow_records[i].due_date + 2 <= loc[w].date
        /\ loc[w].fine_total >= 10

(***************************************************************************)
(* C14. A loan returned on or before its due date has fine 0 from its      *)
(* return on: in the stored field, in the fines page at every date, and in *)
(* the totals that the fines page and the chatbot give a user all of whose *)
(* loans were returned on time.                                            *)
(***************************************************************************)
C14_OnTimeReturnNoFine ==
    /\ \A i \in Records :
           ReturnedOnTime(borrow_records[i]) =>
               /\ borrow_records[i].fine = 0
               /\ \A t \in Days : late_fee(borrow_records[i], t) = 0
    /\ \A w \in Workers :
           ( /\ pc[w] = "done"
             /\ req[w].kind \in {"fines", "check_fines"}
             /\ \A i \in Records :
                    borrow_records[i].user_id = req[w].user
                        => ReturnedOnTime(borrow_records[i]) )
           => loc[w].fine_total = 0

\* the fines page and the chatbot have been asked, after the due date, by a
\* borrower whose loan was returned on time
C14_Witness ==
    \E w \in Workers, i \in Records :
        /\ pc[w] = "done"
        /\ req[w].kind \in {"fines", "check_fines"}
        /\ borrow_records[i].user_id = req[w].user
        /\ ReturnedOnTime(borrow_records[i])
        /\ loc[w].date > borrow_records[i].due_date
        /\ loc[w].fine_total = 0

(***************************************************************************)
(* C15. The fine of a loan never decreases, whatever the requests and      *)
(* however the days pass: a return does not lower it.                      *)
(***************************************************************************)
C15_FineNeverDecreases ==
    [][\A i \in Records :
          late_fee(borrow_records'[i], today')
              >= late_fee(borrow_records[i], today)]_vars

(***************************************************************************)
(* Vocabulary of the delete properties.                                    *)
(***************************************************************************)
\* this step is a step of a delete_book request of w on book b
DeleteStep(w, b) ==
    /\ pc'[w] # pc[w]
    /\ req'[w].kind = "delete" /\ req'[w].book = b
    /\ pc[w] \in {"idle", "delete_count", "delete_commit"}

ReturnedOn(b) ==
    {i \in Records : /\ borrow_records[i].book_id = b
                     /\ borrow_records[i].returned}

(***************************************************************************)
(* C16. delete_book on a book that an active loan references deletes       *)
(* nothing and does not answer that the book was deleted (the count of the *)
(* handler turns it down as in use); and after every step, a delete racing *)
(* with a Borrow included, every active loan references a book that        *)
(* exists.                                                                 *)
(***************************************************************************)
C16_DeleteKeepsBorrowedBook ==
    [][/\ \A w \in Workers, b \in BookIds :
             (DeleteStep(w, b) /\ books[b].exists /\ ActiveOn(b) # {})
             => /\ UNCHANGED db
                /\ result'[w] # "deleted"
                /\ pc[w] = "delete_count" => Rejected(w, "in_use")
       /\ \A i \in 1..Len(borrow_records') :
             ~borrow_records'[i].returned
                 => books'[borrow_records'[i].book_id].exists]_vars

\* a delete that had counted no active loan has been refused at its commit,
\* because a Borrow of the book committed in between
C16_Witness ==
    \E w1, w2 \in Workers :
        /\ Served(w1, "delete", "error")
        /\ Served(w2, "borrow", "borrowed")
        /\ req[w1].book = req[w2].book
        /\ w2 \in overlap[w1]
        /\ books[req[w1].book].exists
        /\ ActiveLoans(req[w2].user, req[w2].book) # {}

(***************************************************************************)
(* C17. delete_book on a book with no active loan and at least one         *)
(* returned loan succeeds: the book is gone, every loan is still in the    *)
(* ledger, and no loan references a missing book.                          *)
(***************************************************************************)
C17_DeleteKeepsHistory ==
    [][\A w \in Workers, b \in BookIds :
          ( /\ DeleteStep(w, b) /\ pc'[w] = "done"
            /\ books[b].exists
            /\ ActiveOn(b) = {} /\ ReturnedOn(b) # {} )
          => /\ result'[w] = "deleted"
             /\ ~books'[b].exists
             /\ Len(borrow_records') = Len(borrow_records)
             /\ \A i \in Records :
                    /\ borrow_records'[i].returned = borrow_records[i].returned
                    /\ borrow_records'[i].user_id = borrow_records[i].user_id
                    /\ books'[borrow_records'[i].book_id].exists]_vars

(***************************************************************************)
(* C18. No increment or decrement is lost: the commit of a Borrow leaves   *)
(* the book with exactly one copy less than the database held just before, *)
(* and the commit of the Return of an active loan with exactly one copy    *)
(* more, whatever requests for other loans of the book ran meanwhile.      *)
(***************************************************************************)
C18_NoLostUpdate ==
    [][\A w \in Workers :
          /\ ( /\ pc[w] = "borrow_commit"
               /\ pc'[w] = "done" /\ result'[w] = "borrowed" )
             => books'[req[w].book].copies_available =
                    books[req[w].book].copies_available - 1
          /\ ( /\ pc[w] = "return_commit"
               /\ pc'[w] = "done" /\ result'[w] = "returned"
               /\ ~borrow_records[req[w].record].returned )
             => books'[loc[w].book_id].copies_available =
                    books[loc[w].book_id].copies_available + 1]_vars

(***************************************************************************)
(* C19. Borrow and Return are atomic over both tables: a step of a Borrow  *)
(* either appends its record and writes the decremented count, or changes  *)
(* nothing; a step of a Return either marks the loan returned and writes   *)
(* the incremented count, or changes nothing.                              *)
(***************************************************************************)
C19_AtomicCommit ==
    [][\A w \in Workers :
          /\ (req'[w].kind = "borrow" /\ pc'[w] # pc[w] /\ pc[w] # "done")
             => IF pc'[w] = "done" /\ result'[w] = "borrowed"
                THEN LET n == Len(borrow_records)
                     IN  /\ Len(borrow_records') = n + 1
                         /\ SubSeq(borrow_records', 1, n) = borrow_records
                         /\ borrow_records'[n + 1].user_id = req[w].user
                         /\ borrow_records'[n + 1].book_id = req[w].book
                         /\ ~borrow_records'[n + 1].returned
                         /\ books'[req[w].book].copies_available =
                                loc[w].copies_available - 1
                ELSE UNCHANGED db
          /\ (req'[w].kind = "return" /\ pc'[w] # pc[w] /\ pc[w] # "done")
             => IF pc'[w] = "done" /\ result'[w] = "returned"
                THEN /\ borrow_records'[req[w].record].returned
                     /\ borrow_records'[req[w].record].return_date # NoDate
                     /\ books'[loc[w].book_id].copies_available =
                            loc[w].copies_available + 1
                ELSE UNCHANGED db]_vars

\* a Borrow whose book was deleted under it has been rolled back: no copy
\* taken, no record written
C19_Witness ==
    \E w1, w2 \in Workers :
        /\ Served(w1, "borrow", "error")
        /\ Served(w2, "delete", "deleted")
        /\ req[w1].book = req[w2].book
        /\ books[req[w1].book] = DeletedBook
        /\ borrow_records = <<>>

(***************************************************************************)
(* C20. A Return whose release would raise copies_available above          *)
(* copies_total is rejected and leaves copies_available and the loan       *)
(* unchanged.                                                              *)
(***************************************************************************)
C20_ReleaseCapped ==
    [][\A w \in Workers :
          ( /\ pc[w] = "return_commit" /\ pc'[w] = "done"
            /\ books[loc[w].book_id].copies_available + 1
                   > books[loc[w].book_id].copies_total )
          => /\ UNCHANGED db
             /\ result'[w] # "returned"]_vars

(***************************************************************************)
(* C29. delete_user never orphans lending state: after every step every    *)
(* BorrowRecord references a user that exists, and a step that deletes a   *)
(* user leaves the books and the ledger as they are, the deleted user      *)
(* holding no active loan whose copy would stay taken.                     *)
(***************************************************************************)
C29_DeleteUserKeepsLedger ==
    [][/\ \A i \in 1..Len(borrow_records') :
             borrow_records'[i].user_id \in users'
       /\ users' # users
             => /\ UNCHANGED db
                /\ \A u \in users \ users', b \in BookIds :
                       ActiveLoans(u, b) = {}]_vars

\* a delete_user that started before the user's Borrow committed has been
\* refused at its commit, and the loan has kept its user
C29_Witness ==
    \E w1, w2 \in Workers :
        /\ Served(w1, "delete_user", "error")
        /\ Served(w2, "borrow", "borrowed")
        /\ req[w2].user = req[w1].target
        /\ w2 \in overlap[w1]
        /\ req[w1].target \in users
        /\ ActiveLoans(req[w2].user, req[w2].book) # {}

(***************************************************************************)
(* C25. Every overdue report answers, and the loans it reports as overdue  *)
(* are exactly the caller's active loans whose due_date is before the date *)
(* of the report; a returned loan is never among them.                     *)
(***************************************************************************)
C25_OverdueExactlyActivePastDue ==
    \A w \in Workers :
        ( /\ pc[w] = "done"
          /\ req[w].kind \in {"dashboard", "overdue", "my_borrowed",
                              "legacy_borrowed"} )
        => /\ result[w] # "error"
           /\ loc[w].overdue =
                  {i \in Records : /\ borrow_records[i].user_id = req[w].user
                                   /\ ~borrow_records[i].returned
                                   /\ borrow_records[i].due_date < loc[w].date}

(***************************************************************************)
(* C27. The fine reports agree: for every user, at every date, the total   *)
(* the student fines page recomputes from the dates equals the sum of the  *)
(* stored fines that the chatbot gives, and the total of the legacy fines  *)
(* list.                                                                   *)
(***************************************************************************)
C27_FineReportsAgree ==
    \A u \in Users :
        /\ fine_total(borrow_records, u, today) = total_fine(borrow_records, u)
        /\ fine_total(borrow_records, u, today) = fines_list(borrow_records, u)

(***************************************************************************)
(* C21. RETURNED is terminal: a step never takes a loan from returned back *)
(* to not returned, never removes a loan, and every loan it creates is     *)
(* created not returned.                                                   *)
(***************************************************************************)
C21_ReturnedIsTerminal ==
    [][/\ Len(borrow_records') >= Len(borrow_records)
       /\ \A i \in Records :
              borrow_records[i].returned => borrow_records'[i].returned
       /\ \A i \in (Len(borrow_records) + 1)..Len(borrow_records') :
              ~borrow_records'[i].returned]_vars

\* a loan was returned, its book lent again, and a second Return of the
\* first loan has been answered
C21_Witness ==
    \E w \in Workers :
        /\ req[w].kind = "return" /\ pc[w] = "done"
        /\ result[w] \in {"returned", "already_returned"}
        /\ req[w].record = 1
        /\ Len(borrow_records) = 2
        /\ borrow_records[1].returned
        /\ ~borrow_records[2].returned

(***************************************************************************)
(* C22. In every reachable state, a loan is returned if and only if its    *)
(* return_date is set.                                                     *)
(***************************************************************************)
C22_ReturnedIffReturnDate ==
    \A i \in Records :
        borrow_records[i].returned <=> borrow_records[i].return_date # NoDate

\* the ledger holds a returned loan with its date next to an active loan
\* without one
C22_Witness ==
    \E i, j \in Records :
        /\ borrow_records[i].returned
        /\ borrow_records[i].return_date # NoDate
        /\ ~borrow_records[j].returned
        /\ borrow_records[j].return_date = NoDate

(***************************************************************************)
(* C23 as claimed. A Borrow by a user who holds an active loan on the book *)
(* while the book has copies_available = 0 is rejected as                  *)
(* already-borrowed.                                                       *)
(***************************************************************************)
C23_HolderCheckedFirst ==
    [][\A w \in Workers :
          ( /\ Starts(w, "borrow")
            /\ books[req'[w].book].exists
            /\ ActiveLoans(req'[w].user, req'[w].book) # {}
            /\ books[req'[w].book].copies_available = 0 )
          => Rejected(w, "already_borrowed")]_vars

(***************************************************************************)
(* C23 as amended. Borrow checks the stock before the caller's active      *)
(* loan: the same request is rejected as out of stock.                     *)
(***************************************************************************)
C23_StockCheckedFirst ==
    [][\A w \in Workers :
          ( /\ Starts(w, "borrow")
            /\ books[req'[w].book].exists
            /\ ActiveLoans(req'[w].user, req'[w].book) # {}
            /\ books[req'[w].book].copies_available = 0 )
          => Rejected(w, "out_of_stock")]_vars

\* the holder of a sold-out book has been told that it is out of stock
C23_Witness ==
    \E w \in Workers :
        /\ Served(w, "borrow", "out_of_stock")
        /\ ActiveLoans(req[w].user, req[w].book) # {}
        /\ books[req[w].book].copies_available = 0

(***************************************************************************)
(* Vocabulary of C24: book b is a row before and after the step and its    *)
(* copies_available differs.                                               *)
(***************************************************************************)
CopiesChange(b) ==
    /\ books[b].exists /\ books'[b].exists
    /\ books'[b].copies_available # books[b].copies_available

\* w ends a request of kind k with response r in this step
Ends(w, k, r) ==
    pc[w] # "done" /\ pc'[w] = "done" /\ req[w].kind = k /\ result'[w] = r

(***************************************************************************)
(* C24 as claimed. copies_available of a book changes only in a successful *)
(* Borrow, by -1, and in a successful Return, by +1.                       *)
(***************************************************************************)
C24_OnlyLendingChangesCopies ==
    [][\A b \in BookIds :
          CopiesChange(b) =>
              \E w \in Workers :
                  \/ /\ Ends(w, "borrow", "borrowed") /\ req[w].book = b
                     /\ books'[b].copies_available =
                            books[b].copies_available - 1
                  \/ /\ Ends(w, "return", "returned") /\ loc[w].book_id = b
                     /\ books'[b].copies_available =
                            books[b].copies_available + 1]_vars

(***************************************************************************)
(* C24 as amended. copies_available of a book is written only by a         *)
(* successful Borrow (one less than the count the handler read), by a      *)
(* successful Return (one more than the count it read) and by admin        *)
(* edit_book (the new total minus the copies lent according to the row it  *)
(* read, at least 0); no other request changes it.                         *)
(***************************************************************************)
C24_WritersOfCopies ==
    [][\A b \in BookIds :
          CopiesChange(b) =>
              \E w \in Workers :
                  \/ /\ Ends(w, "borrow", "borrowed") /\ req[w].book = b
                     /\ books'[b].copies_available =
                            loc[w].copies_available - 1
                  \/ /\ Ends(w, "return", "returned") /\ loc[w].book_id = b
                     /\ books'[b].copies_available =
                            loc[w].copies_available + 1
                  \/ /\ Ends(w, "edit", "updated") /\ req[w].book = b
                     /\ LET lent == loc[w].copies_total
                                        - loc[w].copies_available
                        IN  books'[b].copies_available =
                                IF req[w].n - lent > 0 THEN req[w].n - lent
                                ELSE 0]_vars

\* an edit has left a book with all its copies available while one of them
\* is out on loan
C24_Witness ==
    \E w \in Workers :
        /\ Served(w, "edit", "updated")
        /\ books[req[w].book].copies_total = 2
        /\ books[req[w].book].copies_available = 2
        /\ ActiveOn(req[w].book) # {}

(***************************************************************************)
(* C26. Once a loan is created, its user, book, borrow_date and due_date   *)
(* never change.                                                           *)
(***************************************************************************)
C26_LoanFieldsImmutable ==
    [][\A i \in Records :
          /\ i <= Len(borrow_records')
          /\ borrow_records'[i].user_id = borrow_records[i].user_id
          /\ borrow_records'[i].book_id = borrow_records[i].book_id
          /\ borrow_records'[i].borrow_date = borrow_records[i].borrow_date
          /\ borrow_records'[i].due_date = borrow_records[i].due_date]_vars

\* a teacher's loan has been returned and still carries its 14-day period,
\* after the total of its book was edited to 0
C26_Witness ==
    \E w \in Workers, i \in Records :
        /\ Served(w, "return", "returned")
        /\ req[w].record = i
        /\ borrow_records[i].returned
        /\ Role(borrow_records[i].user_id) = TEACHER
        /\ borrow_records[i].due_date =
              borrow_records[i].borrow_date + TeacherLoanDays
        /\ books[borrow_records[i].book_id].copies_total = 0

(***************************************************************************)
(* C28. When requests do not interleave, no user holds two active loans on *)
(* the same book: two different active loans of one user are on different  *)
(* books.                                                                  *)
(***************************************************************************)
C28_SequentialOneActiveLoan ==
    \A i, j \in Records :
        ( /\ i # j
          /\ ~borrow_records[i].returned /\ ~borrow_records[j].returned
          /\ borrow_records[i].user_id = borrow_records[j].user_id )
        => borrow_records[i].book_id # borrow_records[j].book_id

\* a teacher has returned a book and borrowed it again: two loans of one
\* user on one book, one of them active
C28_Witness ==
    \E w \in Workers, i, j \in Records :
        /\ Served(w, "borrow", "borrowed")
        /\ Role(req[w].user) = TEACHER
        /\ i # j
        /\ borrow_records[i].user_id = req[w].user
        /\ borrow_records[j].user_id = req[w].user
        /\ borrow_records[i].book_id = req[w].book
        /\ borrow_records[j].book_id = req[w].book
        /\ borrow_records[i].returned
        /\ ~borrow_records[j].returned

====
